---- MODULE Spec2Model ----
(***************************************************************************)
(* Model of the default GstPreset implementation (gst/gstpreset.c): the    *)
(* per-type key file cache, the two-layer build with version driven merge, *)
(* the persist step with backup rotation and the preset operations.        *)
(*                                                                         *)
(* A key file is a record [order, grp, top]: the group names in file       *)
(* order, the groups (keys, key comments, group comment) and the file      *)
(* comment.  A file on disk is a record [kind, doc].  gchar* NULL is the   *)
(* string NULL, a missing comment is NoComment.                            *)
(***************************************************************************)
EXTENDS Integers, Sequences, FiniteSets, TLC

(* ---------------------------------------------------------------------- *)
(* Bounds of the exploration                                               *)
(* ---------------------------------------------------------------------- *)
MaxOps == 2
MaxShallowOps == 1
MaxIOFailures == 1
MaxRoundTripOps == 3
MaxSharedOps == 3
MaxPersistOps == 3
MaxPersistFailures == 2

(* ---------------------------------------------------------------------- *)
(* Program constants                                                       *)
(* ---------------------------------------------------------------------- *)
PRESET_HEADER == "_presets_"
PRESET_HEADER_ELEMENT_NAME == "element-name"
PRESET_HEADER_VERSION == "version"
PACKAGE_VERSION == "0.10.30"
MetaPrefix == "_meta/"

\* G_OBJECT_TYPE_NAME (preset): the type identity of the modelled element
ElementName == "GstVolume"

\* the name of a second type with the interface
OtherElementName == "GstPan"

\* G_OBJECT_TYPE_NAME (preset): the type of the instance the calls are made on
VARIABLE typeName

NULL == "<null>"
NoComment == "<none>"

(* ---------------------------------------------------------------------- *)
(* GKeyFile as used by gstpreset.c                                         *)
(* ---------------------------------------------------------------------- *)
EmptyFn == [x \in {} |-> NULL]
FnSet(f, k, v) == [x \in (DOMAIN f) \cup {k} |-> IF x = k THEN v ELSE f[x]]
FnDel(f, k) == [x \in (DOMAIN f) \ {k} |-> f[x]]

EmptyGroup == [kv |-> EmptyFn, kc |-> EmptyFn, gc |-> NoComment]

\* g_key_file_new ()
KfNew == [order |-> <<>>, grp |-> EmptyFn, top |-> NoComment]

KfHasGroup(d, g) == g \in DOMAIN d.grp

KfHasKey(d, g, k) == KfHasGroup(d, g) /\ k \in DOMAIN d.grp[g].kv

\* g_key_file_get_groups: the group names in file order
KfGetGroups(d) == d.order

\* g_key_file_get_keys
KfGetKeys(d, g) == IF KfHasGroup(d, g) THEN DOMAIN d.grp[g].kv ELSE {}

\* g_key_file_get_value: NULL when the group or the key is missing
KfGetValue(d, g, k) == IF KfHasKey(d, g, k) THEN d.grp[g].kv[k] ELSE NULL

\* g_key_file_set_value / g_key_file_set_string: creates the group (at the
\* end of the file) and the key when missing, keeps an existing key comment
KfSetValue(d, g, k, v) ==
  LET old == IF KfHasGroup(d, g) THEN d.grp[g] ELSE EmptyGroup
      new == [old EXCEPT !.kv = FnSet(old.kv, k, v)]
  IN [d EXCEPT !.order = IF KfHasGroup(d, g) THEN d.order ELSE Append(d.order, g),
               !.grp = FnSet(d.grp, g, new)]

\* g_key_file_remove_group: no effect (an ignored error) when missing
KfRemoveGroup(d, g) ==
  IF ~KfHasGroup(d, g) THEN d
  ELSE [d EXCEPT !.order = SelectSeq(d.order, LAMBDA x : x # g),
                 !.grp = FnDel(d.grp, g)]

\* g_key_file_remove_key: no effect (an ignored error) when missing
KfRemoveKey(d, g, k) ==
  IF ~KfHasKey(d, g, k) THEN d
  ELSE [d EXCEPT !.grp = FnSet(d.grp, g,
          [d.grp[g] EXCEPT !.kv = FnDel(d.grp[g].kv, k),
                           !.kc = FnDel(d.grp[g].kc, k)])]

\* g_key_file_get_comment (kf, NULL, NULL) / (kf, g, NULL) / (kf, g, k):
\* NULL when there is no comment or the group or key is missing
KfGetComment(d, g, k) ==
  IF g = NULL THEN (IF d.top = NoComment THEN NULL ELSE d.top)
  ELSE IF ~KfHasGroup(d, g) THEN NULL
  ELSE IF k = NULL THEN (IF d.grp[g].gc = NoComment THEN NULL ELSE d.grp[g].gc)
  ELSE IF k \in DOMAIN d.grp[g].kc THEN d.grp[g].kc[k]
  ELSE NULL

\* g_key_file_set_comment: fails, leaving the key file as it is, when the
\* group or the key does not exist
KfSetComment(d, g, k, c) ==
  IF g = NULL THEN [d EXCEPT !.top = c]
  ELSE IF ~KfHasGroup(d, g) THEN d
  ELSE IF k = NULL THEN [d EXCEPT !.grp = FnSet(d.grp, g, [d.grp[g] EXCEPT !.gc = c])]
  ELSE IF ~KfHasKey(d, g, k) THEN d
  ELSE [d EXCEPT !.grp = FnSet(d.grp, g,
          [d.grp[g] EXCEPT !.kc = FnSet(d.grp[g].kc, k, c)])]

(* ---------------------------------------------------------------------- *)
(* Files                                                                   *)
(* ---------------------------------------------------------------------- *)
NoFile == [kind |-> "absent", doc |-> KfNew]
Malformed == [kind |-> "malformed", doc |-> KfNew]
Unreadable == [kind |-> "unreadable", doc |-> KfNew]
DocFile(d) == [kind |-> "doc", doc |-> d]

FileExists(f) == f.kind # "absent"

(* ---------------------------------------------------------------------- *)
(* preset_parse_version                                                    *)
(* ---------------------------------------------------------------------- *)
\* sscanf (str, "%d.%d.%d.%d", ...): the integers converted, in order; the
\* number of conversions is the length
ScanVersion(str) ==
  CASE str = "0.10.29" -> <<0, 10, 29>>
    [] str = "0.10.30" -> <<0, 10, 30>>
    [] str = "0.10.31" -> <<0, 10, 31>>
    [] str = "0.10.30.1" -> <<0, 10, 30, 1>>
    [] str = "0.11" -> <<0, 11>>
    [] str = "0.256" -> <<0, 256>>
    [] str = "0.0.256" -> <<0, 0, 256>>
    [] str = "1" -> <<1>>
    [] str = "1.0" -> <<1, 0>>
    [] str = "128.0" -> <<128, 0>>
    [] OTHER -> <<>>

RECURSIVE BitOr(_, _)
BitOr(a, b) ==
  IF a = 0 THEN b
  ELSE IF b = 0 THEN a
  ELSE (IF (a % 2 = 1) \/ (b % 2 = 1) THEN 1 ELSE 0) + 2 * BitOr(a \div 2, b \div 2)

\* byte k (0 = least significant) of a non-negative gint
ByteOf(n, k) ==
  CASE k = 0 -> n % 256
    [] k = 1 -> (n \div 256) % 256
    [] k = 2 -> (n \div 65536) % 256
    [] OTHER -> (n \div 16777216) % 256

\* ((((major << 8 | minor) << 8) | micro) << 8) | nano computed in a 32 bit
\* gint and widened to guint64: the four bytes of the gint, most significant
\* first, preceded by the sign extension (1 when the gint is negative)
PackVersion(major, minor, micro, nano) ==
  LET b3 == BitOr(BitOr(ByteOf(major, 0), ByteOf(minor, 1)),
                  BitOr(ByteOf(micro, 2), ByteOf(nano, 3)))
      b2 == BitOr(ByteOf(minor, 0), BitOr(ByteOf(micro, 1), ByteOf(nano, 2)))
      b1 == BitOr(ByteOf(micro, 0), ByteOf(nano, 1))
      b0 == ByteOf(nano, 0)
  IN <<IF b3 >= 128 THEN 1 ELSE 0, b3, b2, b1, b0>>

OrdinalZero == <<0, 0, 0, 0, 0>>

preset_parse_version(str) ==
  LET c == ScanVersion(str)
      comp(i) == IF i <= Len(c) THEN c[i] ELSE 0
  IN IF Len(c) > 1 THEN PackVersion(comp(1), comp(2), comp(3), comp(4))
     ELSE OrdinalZero

\* a > b on guint64 values given as <<sign extension, b3, b2, b1, b0>>
RECURSIVE OrdinalGreaterFrom(_, _, _)
OrdinalGreaterFrom(a, b, i) ==
  IF i > 5 THEN FALSE
  ELSE IF a[i] # b[i] THEN a[i] > b[i]
  ELSE OrdinalGreaterFrom(a, b, i + 1)

OrdinalGreater(a, b) == OrdinalGreaterFrom(a, b, 1)

\* mutant: the system file also wins over a user file of the same version
SystemIsNewerOrEqual(vsys, vuser) ==
  ~OrdinalGreater(preset_parse_version(vuser), preset_parse_version(vsys))

\* the test of preset_get_keyfile: system version strictly above user version
SystemIsNewer(vsys, vuser) ==
  OrdinalGreater(preset_parse_version(vsys), preset_parse_version(vuser))

(* ---------------------------------------------------------------------- *)
(* preset_open_and_parse_header                                            *)
(* ---------------------------------------------------------------------- *)
\* mutant: the element name is not compared
WrongNameOnlyMissing(name) == name = NULL

\* !name || strcmp (name, element_name)
WrongName(name) == name = NULL \/ name # typeName

preset_open_and_parse_header(f) ==
  IF f.kind # "doc" THEN [ok |-> FALSE, doc |-> KfNew, version |-> NULL]
  ELSE IF WrongName(KfGetValue(f.doc, PRESET_HEADER, PRESET_HEADER_ELEMENT_NAME))
    THEN [ok |-> FALSE, doc |-> KfNew, version |-> NULL]
  ELSE [ok |-> TRUE, doc |-> f.doc,
        version |-> KfGetValue(f.doc, PRESET_HEADER, PRESET_HEADER_VERSION)]

(* ---------------------------------------------------------------------- *)
(* preset_merge                                                            *)
(* ---------------------------------------------------------------------- *)
\* groups[i][0] == '_'
IsPrivate(g) == g \in {"_presets_", "_scratch"}

RECURSIVE MergeKeys(_, _, _, _)
MergeKeys(system, user, g, ks) ==
  IF ks = {} THEN system
  ELSE LET k == CHOOSE x \in ks : TRUE
           c == KfGetComment(user, g, k)
           s1 == IF c # NULL THEN KfSetComment(system, g, k, c) ELSE system
           s2 == KfSetValue(s1, g, k, KfGetValue(user, g, k))
       IN MergeKeys(s2, user, g, ks \ {k})

\* mutant: the keys of the user group are set on top of the system group
MergeKeepGroup(system, g) == system

\* if group already exists in system, remove it
MergeDropGroup(system, g) ==
  IF KfHasGroup(system, g) THEN KfRemoveGroup(system, g) ELSE system

MergeGroup(system, user, g) ==
  LET c == KfGetComment(user, g, NULL)
      s1 == IF c # NULL THEN KfSetComment(system, g, NULL, c) ELSE system
  IN IF IsPrivate(g) THEN s1
     ELSE MergeKeys(MergeDropGroup(s1, g), user, g, KfGetKeys(user, g))

RECURSIVE MergeGroups(_, _, _)
MergeGroups(system, user, i) ==
  IF i > Len(KfGetGroups(user)) THEN system
  ELSE MergeGroups(MergeGroup(system, user, KfGetGroups(user)[i]), user, i + 1)

preset_merge(system, user) ==
  LET c == KfGetComment(user, NULL, NULL)
      s1 == IF c # NULL THEN KfSetComment(system, NULL, NULL, c) ELSE system
  IN MergeGroups(s1, user, 1)

(* ---------------------------------------------------------------------- *)
(* Outcomes of the file system calls of one persist: TRUE = the call fails *)
(* ---------------------------------------------------------------------- *)
IoOk == [unlink |-> FALSE, rename |-> FALSE, data |-> FALSE, write |-> FALSE]

IoCount(io) ==
  (IF io.unlink THEN 1 ELSE 0) + (IF io.rename THEN 1 ELSE 0)
    + (IF io.data THEN 1 ELSE 0) + (IF io.write THEN 1 ELSE 0)

IoChoices(n) ==
  {io \in [unlink : BOOLEAN, rename : BOOLEAN, data : BOOLEAN, write : BOOLEAN] :
     IoCount(io) <= n}

(* ---------------------------------------------------------------------- *)
(* gst_preset_default_save_presets_file                                    *)
(*                                                                         *)
(* The handlers work on a record W that holds the cached key file, the     *)
(* files, the property values of the instance, the results and the         *)
(* records kept of the last build and the last persist.                    *)
(* ---------------------------------------------------------------------- *)
\* mutant: the backup is attempted although the old one could not be removed
RemoveOldBackupAnyway(bak, io) ==
  IF FileExists(bak) /\ ~io.unlink THEN [bak |-> NoFile, backup |-> TRUE]
  ELSE [bak |-> bak, backup |-> TRUE]

\* g_file_test (bak) and g_unlink (bak): the backup file left and the
\* backup flag
RemoveOldBackup(bak, io) ==
  IF FileExists(bak)
    THEN (IF io.unlink THEN [bak |-> bak, backup |-> FALSE]
          ELSE [bak |-> NoFile, backup |-> TRUE])
    ELSE [bak |-> bak, backup |-> TRUE]

\* mutant: the old file is removed instead of being renamed
RenameDroppingFile(user, bak, backup, io) ==
  IF backup /\ FileExists(user) /\ ~io.rename
    THEN [user |-> NoFile, bak |-> bak]
    ELSE [user |-> user, bak |-> bak]

\* g_rename (preset_path, bak_file_name): fails when there is no file at
\* preset_path
RenameToBackup(user, bak, backup, io) ==
  IF backup /\ FileExists(user) /\ ~io.rename
    THEN [user |-> NoFile, bak |-> user]
    ELSE [user |-> user, bak |-> bak]

\* mutant: the header version is left as loaded
StampNothing(d) == d

\* update gstreamer version
StampVersion(d) ==
  KfSetValue(d, PRESET_HEADER, PRESET_HEADER_VERSION, PACKAGE_VERSION)

\* mutant: the file is written although the write reported a failure
WriteContentsAlways(user, d, io) == DocFile(d)

\* g_key_file_to_data and g_file_set_contents: the file at preset_path
WriteContents(user, d, io) ==
  IF ~io.data /\ ~io.write THEN DocFile(d) ELSE user

\* the calls that failed among those the persist made
IoEffective(W, io) ==
  LET unlinkFailed == FileExists(W.bak) /\ io.unlink
  IN [unlink |-> unlinkFailed,
      rename |-> ~unlinkFailed /\ FileExists(W.user) /\ io.rename,
      data |-> io.data,
      write |-> ~io.data /\ io.write]

\* the outcomes drawn for the persist that runs next in this handler
NextIo(W) ==
  IF Len(W.ioLog) < Len(W.ios) THEN W.ios[Len(W.ioLog) + 1] ELSE IoOk

gst_preset_default_save_presets_file(W) ==
  LET io == NextIo(W)
      r1 == RemoveOldBackup(W.bak, io)
      r2 == RenameToBackup(W.user, r1.bak, r1.backup, io)
      doc1 == StampVersion(W.presets.doc)
      user3 == WriteContents(r2.user, doc1, io)
      ok == ~io.data /\ ~io.write
  IN [W EXCEPT !.presets = [built |-> TRUE, doc |-> doc1],
               !.user = user3,
               !.bak = r2.bak,
               !.ret = ok,
               !.ioLog = Append(W.ioLog, IoEffective(W, io)),
               !.written = IF ok THEN W.written \cup {doc1} ELSE W.written,
               !.per = [n |-> W.per.n + 1, preUser |-> W.user,
                        preBak |-> W.bak, preDoc |-> W.presets.doc,
                        io |-> IoEffective(W, io), ret |-> ok]]

(* ---------------------------------------------------------------------- *)
(* preset_get_keyfile                                                      *)
(* ---------------------------------------------------------------------- *)
\* g_key_file_new () with the header of the element type
FreshKeyfile ==
  KfSetValue(KfNew, PRESET_HEADER, PRESET_HEADER_ELEMENT_NAME, typeName)

\* The key file chosen from the two layers and the updated_from_system flag.
ResolveLayers(inUser, inSystem) ==
  LET updated == inSystem.ok /\ inUser.ok
                   /\ SystemIsNewer(inSystem.version, inUser.version)
  IN [updated |-> updated,
      doc |-> IF inUser.ok
                THEN (IF updated THEN preset_merge(inSystem.doc, inUser.doc)
                      ELSE inUser.doc)
              ELSE IF inSystem.ok THEN inSystem.doc
              ELSE FreshKeyfile]

\* preset_parse_version (NULL) hands a NULL pointer to sscanf: undefined
\* behaviour, reached when both layers load and a header has no version
ParsesNull(inUser, inSystem) ==
  inSystem.ok /\ inUser.ok /\ (inSystem.version = NULL \/ inUser.version = NULL)

\* g_type_set_qdata (type, preset_quark, presets)
CacheKeyfile(W, doc) == [W EXCEPT !.presets = [built |-> TRUE, doc |-> doc]]

\* mutant: every build saves the key file back
ResaveAlways(W1, updated) == gst_preset_default_save_presets_file(W1)

\* save back when the key file was updated from the system file; the result
\* of the save is not looked at
ResaveIfUpdated(W1, updated) ==
  IF updated THEN gst_preset_default_save_presets_file(W1) ELSE W1

\* the record kept of the build: W is the state before it, W2 the state
\* after it, res the key file chosen
BuildRecord(W, W2, inUser, inSystem, res) ==
  [W2 EXCEPT !.ubHit = ParsesNull(inUser, inSystem),
             !.mid = [doc |-> W2.presets.doc, user |-> W2.user, bak |-> W2.bak],
             !.bld = [n |-> W.bld.n + 1, user |-> W.user, sys |-> W.sys,
                      preBak |-> W.bak,
                      resolved |-> res.doc, updated |-> res.updated,
                      postUser |-> W2.user, postBak |-> W2.bak,
                      persists |-> W2.per.n]]

\* the build once the layers are resolved; ub is the outcome of the undefined
\* behaviour: "crash" (the process dies) or "zero" (sscanf converts nothing)
BuildKeyfile(W, ub, inUser, inSystem, res) ==
  IF ParsesNull(inUser, inSystem) /\ ub = "crash"
    THEN [W EXCEPT !.crashed = TRUE, !.ubHit = TRUE]
  ELSE BuildRecord(W, ResaveIfUpdated(CacheKeyfile(W, res.doc), res.updated),
                   inUser, inSystem, res)

\* the build once the two files are opened
LoadLayers(W, ub, inUser, inSystem) ==
  BuildKeyfile(W, ub, inUser, inSystem, ResolveLayers(inUser, inSystem))

\* mutant: the layers are read again at every call
preset_get_keyfile_uncached(W, ub) ==
  LoadLayers(W, ub, preset_open_and_parse_header(W.user),
             preset_open_and_parse_header(W.sys))

preset_get_keyfile(W, ub) ==
  IF W.presets.built
    THEN [W EXCEPT !.mid = [doc |-> W.presets.doc, user |-> W.user, bak |-> W.bak]]
  ELSE LoadLayers(W, ub, preset_open_and_parse_header(W.user),
                  preset_open_and_parse_header(W.sys))

(* ---------------------------------------------------------------------- *)
(* gst_preset_default_get_preset_names                                     *)
(* ---------------------------------------------------------------------- *)
\* strcmp order of the group names of the model (ASCII: upper case letters
\* sort before '_')
StrRank(g) ==
  CASE g = "A" -> 1
    [] g = "B" -> 2
    [] g = "C" -> 3
    [] g = "_presets_" -> 4
    [] g = "_scratch" -> 5
    [] OTHER -> 6

\* the removal loop: i and num are the loop index and num_groups, counted
\* from 1; a removed entry is overwritten by the last one, and the loop
\* goes on with the next index
RECURSIVE StripPrivate(_, _, _)
StripPrivate(groups, i, num) ==
  IF i > num THEN SubSeq(groups, 1, num)
  ELSE IF IsPrivate(groups[i])
    THEN StripPrivate([[groups EXCEPT ![i] = groups[num]] EXCEPT ![num] = NULL],
                      i + 1, num - 1)
  ELSE StripPrivate(groups, i + 1, num)

RECURSIVE InsertSorted(_, _)
InsertSorted(sorted, g) ==
  IF sorted = <<>> THEN <<g>>
  ELSE IF StrRank(g) <= StrRank(Head(sorted)) THEN <<g>> \o sorted
  ELSE <<Head(sorted)>> \o InsertSorted(Tail(sorted), g)

\* g_qsort_with_data (groups, num_groups, ..., strcmp)
RECURSIVE SortNames(_)
SortNames(groups) ==
  IF groups = <<>> THEN <<>>
  ELSE InsertSorted(SortNames(Tail(groups)), Head(groups))

PresetNamesOf(d) ==
  SortNames(StripPrivate(KfGetGroups(d), 1, Len(KfGetGroups(d))))

\* gst_preset_default_get_preset_names from the point where preset_get_keyfile returned W1
GetPresetNamesBody(W1) ==
  IF W1.crashed THEN W1
  ELSE [W1 EXCEPT !.ret = TRUE, !.names = PresetNamesOf(W1.presets.doc)]

gst_preset_default_get_preset_names(W, ub) ==
  GetPresetNamesBody(preset_get_keyfile(W, ub))

(* ---------------------------------------------------------------------- *)
(* Property values and their text form (gst_value_serialize and            *)
(* gst_value_deserialize)                                                  *)
(* ---------------------------------------------------------------------- *)
\* a value that has no text form
Unserializable == 9

NativeValues == {0, 1, Unserializable}

gst_value_serialize(v) ==
  CASE v = 0 -> "0"
    [] v = 1 -> "1"
    [] OTHER -> NULL

gst_value_deserialize(str) ==
  CASE str = "0" -> [ok |-> TRUE, val |-> 0]
    [] str = "1" -> [ok |-> TRUE, val |-> 1]
    [] OTHER -> [ok |-> FALSE, val |-> 0]

(* ---------------------------------------------------------------------- *)
(* gst_preset_default_load_preset                                          *)
(* ---------------------------------------------------------------------- *)
\* mutant: the group is not looked up
NoGroupNever(d, name) == FALSE

\* g_key_file_has_group fails: the no_group exit of load, rename and delete
NoGroup(d, name) == ~KfHasGroup(d, name)

RECURSIVE LoadProps(_, _, _, _, _)
LoadProps(d, name, names, values, i) ==
  IF i > Len(names) THEN values
  ELSE LET str == KfGetValue(d, name, names[i])
           dec == gst_value_deserialize(str)
       IN IF str = NULL \/ names[i] \notin DOMAIN values \/ ~dec.ok
            THEN LoadProps(d, name, names, values, i + 1)
          ELSE LoadProps(d, name, names, [values EXCEPT ![names[i]] = dec.val], i + 1)

\* mutant: a property without entry in the group makes the load fail
LoadPresetBodyStrict(W1, name) ==
  IF W1.crashed THEN W1
  ELSE IF NoGroup(W1.presets.doc, name) THEN [W1 EXCEPT !.ret = FALSE]
  ELSE IF W1.propList.null THEN [W1 EXCEPT !.ret = FALSE]
  ELSE [W1 EXCEPT !.ret = \A i \in 1..Len(W1.propList.names) :
                             KfHasKey(W1.presets.doc, name, W1.propList.names[i]),
                  !.props = LoadProps(W1.presets.doc, name, W1.propList.names,
                                      W1.props, 1)]

\* gst_preset_default_load_preset from the point where preset_get_keyfile returned W1
LoadPresetBody(W1, name) ==
  IF W1.crashed THEN W1
  ELSE IF NoGroup(W1.presets.doc, name) THEN [W1 EXCEPT !.ret = FALSE]
  ELSE IF W1.propList.null THEN [W1 EXCEPT !.ret = FALSE]
  ELSE [W1 EXCEPT !.ret = TRUE,
                  !.props = LoadProps(W1.presets.doc, name, W1.propList.names,
                                      W1.props, 1)]

gst_preset_default_load_preset(W, name, ub) ==
  LoadPresetBody(preset_get_keyfile(W, ub), name)

(* ---------------------------------------------------------------------- *)
(* gst_preset_default_save_preset                                          *)
(* ---------------------------------------------------------------------- *)
\* mutant: the group is started afresh for the stored property
StoreReplacingGroup(d, name, prop, str) ==
  KfSetValue(KfRemoveGroup(d, name), name, prop, str)

\* the body of the loop for one property whose value has the text form str
StoreProperty(d, name, prop, str) == KfSetValue(d, name, prop, str)

RECURSIVE SaveProps(_, _, _, _, _)
SaveProps(d, name, names, values, i) ==
  IF i > Len(names) THEN d
  ELSE IF names[i] \notin DOMAIN values THEN SaveProps(d, name, names, values, i + 1)
  ELSE LET str == gst_value_serialize(values[names[i]])
       IN IF str = NULL THEN SaveProps(d, name, names, values, i + 1)
          ELSE SaveProps(StoreProperty(d, name, names[i], str), name, names, values, i + 1)

\* gst_preset_default_save_preset from the point where preset_get_keyfile returned W1
SavePresetBody(W1, name) ==
  IF W1.crashed THEN W1
  ELSE IF W1.propList.null THEN [W1 EXCEPT !.ret = FALSE]
  ELSE gst_preset_default_save_presets_file(
         [W1 EXCEPT !.presets.doc = SaveProps(@, name, W1.propList.names, W1.props, 1)])

gst_preset_default_save_preset(W, name, ub) ==
  SavePresetBody(preset_get_keyfile(W, ub), name)

(* ---------------------------------------------------------------------- *)
(* gst_preset_default_rename_preset                                        *)
(* ---------------------------------------------------------------------- *)
RECURSIVE RenameKeys(_, _, _, _)
RenameKeys(d, old_name, new_name, ks) ==
  IF ks = {} THEN d
  ELSE LET k == CHOOSE x \in ks : TRUE
           c == KfGetComment(d, old_name, k)
           d1 == IF c # NULL THEN KfSetComment(d, new_name, k, c) ELSE d
           d2 == KfSetValue(d1, new_name, k, KfGetValue(d1, old_name, k))
       IN RenameKeys(d2, old_name, new_name, ks \ {k})

\* the group comment and the keys copied, then the old group removed
RenameGroup(d, old_name, new_name) ==
  LET c == KfGetComment(d, old_name, NULL)
      d1 == IF c # NULL THEN KfSetComment(d, new_name, NULL, c) ELSE d
      d2 == RenameKeys(d1, old_name, new_name, KfGetKeys(d1, old_name))
  IN KfRemoveGroup(d2, old_name)

\* gst_preset_default_rename_preset from the point where preset_get_keyfile returned W1
RenamePresetBody(W1, old_name, new_name) ==
  IF W1.crashed THEN W1
  ELSE IF NoGroup(W1.presets.doc, old_name) THEN [W1 EXCEPT !.ret = FALSE]
  ELSE gst_preset_default_save_presets_file(
         [W1 EXCEPT !.presets.doc = RenameGroup(@, old_name, new_name)])

gst_preset_default_rename_preset(W, old_name, new_name, ub) ==
  RenamePresetBody(preset_get_keyfile(W, ub), old_name, new_name)

(* ---------------------------------------------------------------------- *)
(* gst_preset_default_delete_preset                                        *)
(* ---------------------------------------------------------------------- *)
\* gst_preset_default_delete_preset from the point where preset_get_keyfile returned W1
DeletePresetBody(W1, name) ==
  IF W1.crashed THEN W1
  ELSE IF NoGroup(W1.presets.doc, name) THEN [W1 EXCEPT !.ret = FALSE]
  ELSE gst_preset_default_save_presets_file(
         [W1 EXCEPT !.presets.doc = KfRemoveGroup(@, name)])

gst_preset_default_delete_preset(W, name, ub) ==
  DeletePresetBody(preset_get_keyfile(W, ub), name)

(* ---------------------------------------------------------------------- *)
(* gst_preset_default_set_meta and gst_preset_default_get_meta             *)
(* ---------------------------------------------------------------------- *)
\* g_strdup_printf ("_meta/%s", tag)
MetaKey(tag) == MetaPrefix \o tag

\* mutant: an empty value is stored like any other
HasTextOrEmpty(value) == value # NULL

\* value && *value
HasText(value) == value # NULL /\ value # ""

\* gst_preset_default_set_meta from the point where preset_get_keyfile returned W1
SetMetaBody(W1, name, tag, value) ==
  IF W1.crashed THEN W1
  ELSE gst_preset_default_save_presets_file(
         [W1 EXCEPT !.presets.doc =
            IF HasText(value) THEN KfSetValue(@, name, MetaKey(tag), value)
            ELSE KfRemoveKey(@, name, MetaKey(tag))])

gst_preset_default_set_meta(W, name, tag, value, ub) ==
  SetMetaBody(preset_get_keyfile(W, ub), name, tag, value)

\* mutant: a missing group or key is reported as a failure
GetMetaBodyStrict(W1, name, tag) ==
  IF W1.crashed THEN W1
  ELSE [W1 EXCEPT !.ret = KfGetValue(W1.presets.doc, name, MetaKey(tag)) # NULL,
                  !.meta = KfGetValue(W1.presets.doc, name, MetaKey(tag))]

\* gst_preset_default_get_meta from the point where preset_get_keyfile returned W1
GetMetaBody(W1, name, tag) ==
  IF W1.crashed THEN W1
  ELSE [W1 EXCEPT !.ret = TRUE,
                  !.meta = KfGetValue(W1.presets.doc, name, MetaKey(tag))]

gst_preset_default_get_meta(W, name, tag, ub) ==
  GetMetaBody(preset_get_keyfile(W, ub), name, tag)

(* ---------------------------------------------------------------------- *)
(* Files found on disk when the process starts                             *)
(* ---------------------------------------------------------------------- *)
HeaderGroup(name, version, comment) ==
  [kv |-> IF version = NULL THEN (PRESET_HEADER_ELEMENT_NAME :> name)
          ELSE (PRESET_HEADER_ELEMENT_NAME :> name) @@ (PRESET_HEADER_VERSION :> version),
   kc |-> EmptyFn, gc |-> comment]

\* the presets shipped with the system
SystemDoc(version) ==
  [order |-> <<"_presets_", "A", "B", "_scratch">>,
   top |-> "system presets",
   grp |-> ("_presets_" :> HeaderGroup(ElementName, version, NoComment))
        @@ ("A" :> [kv |-> ("vol" :> "1") @@ ("pan" :> "1") @@ ("_meta/comment" :> "shipped"),
                    kc |-> ("vol" :> "system vol"), gc |-> "system A"])
        @@ ("B" :> [kv |-> ("vol" :> "0") @@ ("pan" :> "junk"),
                    kc |-> EmptyFn, gc |-> NoComment])
        @@ ("_scratch" :> [kv |-> ("x" :> "s"), kc |-> EmptyFn, gc |-> NoComment])]

\* a user file: group A edited, group C added, a private group
UserDoc(version) ==
  [order |-> <<"_presets_", "_scratch", "A", "C">>,
   top |-> "my presets",
   grp |-> ("_presets_" :> HeaderGroup(ElementName, version, "my header"))
        @@ ("_scratch" :> [kv |-> ("x" :> "u"), kc |-> EmptyFn, gc |-> NoComment])
        @@ ("A" :> [kv |-> ("vol" :> "0") @@ ("pan" :> "1"),
                    kc |-> ("vol" :> "my vol"), gc |-> "my A"])
        @@ ("C" :> [kv |-> ("pan" :> "1") @@ ("_meta/comment" :> "mine") @@ ("vol" :> "junk"),
                    kc |-> EmptyFn, gc |-> NoComment])]

\* a user file as set_meta (name, tag, "hi") followed by set_meta (name, tag,
\* "") leaves it: groups B and C without any key
UserDocEmptyGroups(version) ==
  [order |-> <<"_presets_", "B", "A", "C">>,
   top |-> NoComment,
   grp |-> ("_presets_" :> HeaderGroup(ElementName, version, NoComment))
        @@ ("B" :> EmptyGroup)
        @@ ("A" :> [kv |-> ("pan" :> "1"), kc |-> EmptyFn, gc |-> NoComment])
        @@ ("C" :> EmptyGroup)]

\* a user file without any preset: the header and a private group
UserDocPrivateOnly(version) ==
  [order |-> <<"_presets_", "_scratch">>,
   top |-> NoComment,
   grp |-> ("_presets_" :> HeaderGroup(ElementName, version, NoComment))
        @@ ("_scratch" :> [kv |-> ("x" :> "u"), kc |-> EmptyFn, gc |-> NoComment])]

\* a file of another element type, and a file whose header has no element-name
OtherElementDoc ==
  [order |-> <<"_presets_", "A">>,
   top |-> NoComment,
   grp |-> ("_presets_" :> HeaderGroup("GstOther", "0.10.31", NoComment))
        @@ ("A" :> [kv |-> ("vol" :> "1"), kc |-> EmptyFn, gc |-> NoComment])]

NoNameDoc ==
  [order |-> <<"_presets_", "A">>,
   top |-> NoComment,
   grp |-> ("_presets_" :> [kv |-> (PRESET_HEADER_VERSION :> "0.10.31"),
                             kc |-> EmptyFn, gc |-> NoComment])
        @@ ("A" :> [kv |-> ("vol" :> "1"), kc |-> EmptyFn, gc |-> NoComment])]

RejectedFiles ==
  {NoFile, Malformed, Unreadable, DocFile(OtherElementDoc), DocFile(NoNameDoc)}

UserSamples ==
  RejectedFiles
    \cup {DocFile(UserDoc(v)) : v \in {"0.10.29", "0.10.30", "0.10.31", "1", NULL}}
    \cup {DocFile(UserDocEmptyGroups("0.10.29")), DocFile(UserDocPrivateOnly("0.10.30"))}

SystemSamples ==
  RejectedFiles \cup {DocFile(SystemDoc(v)) : v \in {"0.10.30", "0.10.31", "1", NULL}}

OldBackup == DocFile(UserDoc("1"))

(* ---------------------------------------------------------------------- *)
(* The element instance                                                    *)
(* ---------------------------------------------------------------------- *)
\* gst_preset_get_property_names: NULL, or the names of the properties
PropsStd == [null |-> FALSE, names |-> <<"vol", "pan">>]
PropsNone == [null |-> FALSE, names |-> <<>>]
PropsNull == [null |-> TRUE, names |-> <<>>]

DefaultProps == ("vol" :> 1) @@ ("pan" :> 0)

PropSamples ==
  {DefaultProps, ("vol" :> 1) @@ ("pan" :> Unserializable),
   ("vol" :> Unserializable) @@ ("pan" :> Unserializable)}

ArgNames == {"A", "B", "_presets_"}
ArgTags == {"comment"}
ArgValues == {"", "hi", NULL}

(* ---------------------------------------------------------------------- *)
(* State                                                                   *)
(* ---------------------------------------------------------------------- *)
VARIABLES
  sysFile,     \* the file at preset_system_path
  userFile,    \* the file at preset_user_path
  bakFile,     \* the file at preset_user_path + ".bak"
  presets,     \* the key file cached on the type: [built, doc]
  props,       \* the property values of the instance
  propList,    \* what gst_preset_get_property_names returns
  crashed,     \* the process died
  steps,       \* calls made so far
  budget,      \* calls explored from this initial state
  ioFailures,  \* file system failures so far
  last,        \* the last call: arguments, results, the state before it
  bld,         \* the build of the key file in this process
  per,         \* the last persist of the last call
  saved,       \* the last successful save_preset not followed by a mutation
  parked,      \* a second instance, waiting for its turn: of the same type,
               \* of another type, or of the same type in another process
  ioBudget,    \* file system failures explored from this initial state
  durable      \* the Documents written by the persists that succeeded so
               \* far, and whether a backup step has failed so far

vars == <<sysFile, userFile, bakFile, presets, props, propList, crashed,
          steps, budget, ioFailures, last, bld, per, saved, typeName, parked,
          ioBudget, durable>>

NotBuilt == [built |-> FALSE, doc |-> KfNew]

BldNone ==
  [n |-> 0, user |-> NoFile, sys |-> NoFile, preBak |-> NoFile, resolved |-> KfNew,
   updated |-> FALSE, postUser |-> NoFile, postBak |-> NoFile, persists |-> 0]

PerNone ==
  [n |-> 0, preUser |-> NoFile, preBak |-> NoFile, preDoc |-> KfNew,
   io |-> IoOk, ret |-> FALSE]

\* nothing written yet
DurableNone == [written |-> {}, backupFailed |-> FALSE]

\* what a call adds: the Documents its persists wrote, and whether one of
\* them could not remove the old backup or rename the file to the backup
DurableAfter(W) ==
  [written |-> durable.written \cup W.written,
   backupFailed |-> durable.backupFailed
                      \/ \E i \in 1..Len(W.ioLog) : W.ioLog[i].unlink \/ W.ioLog[i].rename]

\* no save to remember
SavedNone == [valid |-> FALSE, name |-> NULL, props |-> DefaultProps]

\* what a call leaves of the remembered save: a successful save_preset is
\* remembered with the property values it read, any other call that can
\* change the key file forgets it
SavedAfter(op, name, W) ==
  IF op = "save_preset" /\ W.ret /\ ~W.crashed
    THEN [valid |-> TRUE, name |-> name, props |-> W.props]
  ELSE IF op \in {"save_preset", "rename_preset", "delete_preset", "set_meta"}
    THEN SavedNone
  ELSE saved

Snapshot == [presets |-> presets, user |-> userFile, bak |-> bakFile, props |-> props]

MidNone == [doc |-> KfNew, user |-> NoFile, bak |-> NoFile]

LastOf(op, name, newName, value, W) ==
  [op |-> op, name |-> name, newName |-> newName, value |-> value,
   ret |-> W.ret, names |-> W.names, meta |-> W.meta, crashed |-> W.crashed,
   ubHit |-> W.ubHit, pre |-> Snapshot, mid |-> W.mid]

\* the record the handlers start from
Now(ios) ==
  [presets |-> presets, user |-> userFile, bak |-> bakFile, sys |-> sysFile,
   props |-> props, propList |-> propList, crashed |-> FALSE, ubHit |-> FALSE,
   ret |-> FALSE, names |-> <<>>, meta |-> NULL, mid |-> MidNone,
   ios |-> ios, ioLog |-> <<>>, written |-> {}, bld |-> bld, per |-> PerNone]

InitLayers ==
  /\ userFile \in UserSamples
  /\ sysFile \in SystemSamples
  /\ bakFile = NoFile
  /\ propList = PropsStd
  /\ props = DefaultProps
  /\ budget = MaxShallowOps

InitProps ==
  /\ userFile \in {NoFile, DocFile(UserDoc("0.10.30"))}
  /\ sysFile \in {NoFile, DocFile(SystemDoc("0.10.30"))}
  /\ bakFile = NoFile
  /\ propList \in {PropsStd, PropsNone, PropsNull}
  /\ props \in PropSamples
  /\ budget = MaxShallowOps

DeepSamples ==
  {[user |-> NoFile, sys |-> NoFile, bak |-> NoFile],
   [user |-> DocFile(UserDoc("0.10.30")), sys |-> NoFile, bak |-> OldBackup],
   [user |-> DocFile(UserDoc("0.10.29")), sys |-> DocFile(SystemDoc("0.10.30")),
    bak |-> NoFile],
   [user |-> NoFile, sys |-> DocFile(SystemDoc("0.10.30")), bak |-> OldBackup]}

InitDeep ==
  /\ \E d \in DeepSamples :
       /\ userFile = d.user
       /\ sysFile = d.sys
       /\ bakFile = d.bak
  /\ propList = PropsStd
  /\ props = DefaultProps
  /\ budget = MaxOps

\* a process that has called nothing yet
InitProcess ==
  /\ presets = NotBuilt
  /\ crashed = FALSE
  /\ steps = 0
  /\ ioFailures = 0
  /\ durable = DurableNone
  /\ bld = BldNone
  /\ per = PerNone
  /\ saved = SavedNone
  /\ last = [op |-> "init", name |-> NULL, newName |-> NULL, value |-> NULL,
             ret |-> FALSE, names |-> <<>>, meta |-> NULL, crashed |-> FALSE,
             ubHit |-> FALSE,
             pre |-> [presets |-> NotBuilt, user |-> userFile, bak |-> bakFile,
                      props |-> props],
             mid |-> MidNone]

\* no second instance
ParkedNone ==
  [kind |-> "none", typeName |-> ElementName, props |-> DefaultProps,
   presets |-> NotBuilt, bld |-> BldNone, user |-> NoFile, sys |-> NoFile,
   bak |-> NoFile, propList |-> PropsStd, crashed |-> FALSE, saved |-> SavedNone]

\* one instance of one type in one process
InitAlone ==
  /\ typeName = ElementName
  /\ parked = ParkedNone
  /\ ioBudget = MaxIOFailures

\* a save followed by a change of the properties or a new process, then a
\* load: the layers are absent, present with a system file newer than the
\* running version, or present with a system file without version
RoundTripSamples ==
  {[user |-> NoFile, sys |-> NoFile],
   [user |-> DocFile(UserDoc("0.10.30")), sys |-> DocFile(SystemDoc("0.10.31"))],
   [user |-> NoFile, sys |-> DocFile(SystemDoc(NULL))]}

InitRoundTrip ==
  /\ \E d \in RoundTripSamples :
       /\ userFile = d.user
       /\ sysFile = d.sys
  /\ bakFile = NoFile
  /\ propList = PropsStd
  /\ props \in {("vol" :> 0) @@ ("pan" :> 1), ("vol" :> 0) @@ ("pan" :> Unserializable)}
  /\ budget = MaxRoundTripOps
  /\ InitProcess
  /\ InitAlone

\* the version strings compared by a build: two to four components, one
\* component, none, components above 255 and a major that sets the sign bit
VersionSamples ==
  {"0.10.30", "0.10.30.1", "0.11", "0.256", "0.0.256", "1", "1.0", "128.0", "x"}

InitVersions ==
  /\ \E vu \in VersionSamples, vs \in VersionSamples :
       /\ userFile = DocFile(UserDoc(vu))
       /\ sysFile = DocFile(SystemDoc(vs))
  /\ bakFile = NoFile
  /\ propList = PropsStd
  /\ props = DefaultProps
  /\ budget = MaxShallowOps
  /\ InitProcess
  /\ InitAlone

Init == (InitLayers \/ InitProps \/ InitDeep) /\ InitProcess /\ InitAlone

(* ---------------------------------------------------------------------- *)
(* Actions: one call of the interface each                                 *)
(* ---------------------------------------------------------------------- *)
\* file system outcomes the call may draw: one record per persist it can run,
\* in the order the persists run.  A call that changes the key file runs its
\* own persist, after the re-save of the build when the build rebases; a
\* call on a built key file runs one persist at most.
BuildIo == IF presets.built THEN {IoOk} ELSE IoChoices(ioBudget - ioFailures)
OpIo == IoChoices(ioBudget - ioFailures)
UbOutcomes == IF presets.built THEN {"zero"} ELSE {"crash", "zero"}

CanCall == ~crashed /\ steps < budget

\* every failure drawn was met by the call, and the failures stay in bounds
IoMet(W) ==
  /\ \A i \in 1..Len(W.ios) :
       W.ios[i] = IF i <= Len(W.ioLog) THEN W.ioLog[i] ELSE IoOk
  /\ ioFailures + IoCount(W.ios[1]) + IoCount(W.ios[2]) <= ioBudget

Commit(W, op, name, newName, value) ==
  /\ CanCall
  /\ IoMet(W)
  /\ presets' = W.presets
  /\ userFile' = W.user
  /\ bakFile' = W.bak
  /\ props' = W.props
  /\ crashed' = W.crashed
  /\ bld' = W.bld
  /\ per' = W.per
  /\ steps' = steps + 1
  /\ ioFailures' = ioFailures + IoCount(W.ios[1]) + IoCount(W.ios[2])
  /\ last' = LastOf(op, name, newName, value, W)
  /\ saved' = SavedAfter(op, name, W)
  /\ durable' = DurableAfter(W)
  /\ UNCHANGED <<sysFile, propList, budget, typeName, parked, ioBudget>>

GetPresetNames ==
  \E io1 \in BuildIo, ub \in UbOutcomes :
    Commit(gst_preset_default_get_preset_names(Now(<<io1, IoOk>>), ub),
           "get_preset_names", NULL, NULL, NULL)

LoadPreset ==
  \E name \in ArgNames, io1 \in BuildIo, ub \in UbOutcomes :
    Commit(gst_preset_default_load_preset(Now(<<io1, IoOk>>), name, ub),
           "load_preset", name, NULL, NULL)

SavePreset ==
  \E name \in ArgNames, io1 \in OpIo, io2 \in BuildIo, ub \in UbOutcomes :
    Commit(gst_preset_default_save_preset(Now(<<io1, io2>>), name, ub),
           "save_preset", name, NULL, NULL)

RenamePreset ==
  \E old_name \in ArgNames, new_name \in ArgNames,
     io1 \in OpIo, io2 \in BuildIo, ub \in UbOutcomes :
    Commit(gst_preset_default_rename_preset(Now(<<io1, io2>>), old_name, new_name, ub),
           "rename_preset", old_name, new_name, NULL)

DeletePreset ==
  \E name \in ArgNames, io1 \in OpIo, io2 \in BuildIo, ub \in UbOutcomes :
    Commit(gst_preset_default_delete_preset(Now(<<io1, io2>>), name, ub),
           "delete_preset", name, NULL, NULL)

SetMeta ==
  \E name \in ArgNames, tag \in ArgTags, value \in ArgValues,
     io1 \in OpIo, io2 \in BuildIo, ub \in UbOutcomes :
    Commit(gst_preset_default_set_meta(Now(<<io1, io2>>), name, tag, value, ub),
           "set_meta", name, tag, value)

GetMeta ==
  \E name \in ArgNames, tag \in ArgTags, io1 \in BuildIo, ub \in UbOutcomes :
    Commit(gst_preset_default_get_meta(Now(<<io1, IoOk>>), name, tag, ub),
           "get_meta", name, tag, NULL)

\* the application changes a property of the instance (g_object_set)
SetProperty ==
  \E p \in DOMAIN props, v \in NativeValues :
    /\ CanCall
    /\ props[p] # v
    /\ props' = [props EXCEPT ![p] = v]
    /\ steps' = steps + 1
    /\ per' = PerNone
    /\ last' = [op |-> "set_property", name |-> p, newName |-> NULL, value |-> NULL,
                ret |-> TRUE, names |-> <<>>, meta |-> NULL, crashed |-> FALSE,
                ubHit |-> FALSE, pre |-> Snapshot, mid |-> MidNone]
    /\ UNCHANGED <<sysFile, userFile, bakFile, presets, propList, crashed,
                   budget, ioFailures, bld, saved, typeName, parked, ioBudget,
                   durable>>

\* the second instance lives in this process
SameProcess(p) == p.kind # "process"

\* G_TYPE_FROM_INSTANCE (preset) is the type of the second instance too
SameType(p) == p.typeName = typeName

\* mutant: the key file is attached to the instance
SharesStoreNever(p) == FALSE

\* g_type_get_qdata (type, preset_quark): the key file is attached to the
\* type, and the type data belong to the process
SharesStore(p) == SameProcess(p) /\ SameType(p)

\* what the end of this process leaves of the second instance
RestartParked ==
  IF parked.kind = "none" \/ ~SameProcess(parked) THEN parked
  ELSE [parked EXCEPT !.props = DefaultProps, !.presets = NotBuilt, !.bld = BldNone]

\* the process ends and a new one starts: the type data and the instance
\* are gone, the files stay
Restart ==
  /\ steps < budget
  /\ presets' = NotBuilt
  /\ props' = DefaultProps
  /\ crashed' = FALSE
  /\ bld' = BldNone
  /\ per' = PerNone
  /\ steps' = steps + 1
  /\ last' = [op |-> "restart", name |-> NULL, newName |-> NULL, value |-> NULL,
              ret |-> TRUE, names |-> <<>>, meta |-> NULL, crashed |-> FALSE,
              ubHit |-> FALSE, pre |-> Snapshot, mid |-> MidNone]
  /\ parked' = RestartParked
  /\ UNCHANGED <<sysFile, userFile, bakFile, propList, budget, ioFailures, saved,
                 typeName, ioBudget, durable>>

Next ==
  \/ GetPresetNames
  \/ LoadPreset
  \/ SavePreset
  \/ RenamePreset
  \/ DeletePreset
  \/ SetMeta
  \/ GetMeta
  \/ SetProperty
  \/ Restart

Spec == Init /\ [][Next]_vars

\* the next call is made on the second instance.  The property values belong
\* to the instance, the key file to the type within the process, the files
\* and the property list to the type, the crash to the process.
Switch ==
  /\ parked.kind # "none"
  /\ steps < budget
  /\ crashed => ~SameProcess(parked)
  /\ typeName' = parked.typeName
  /\ props' = parked.props
  /\ presets' = IF SharesStore(parked) THEN presets ELSE parked.presets
  /\ bld' = IF SharesStore(parked) THEN bld ELSE parked.bld
  /\ userFile' = IF SameType(parked) THEN userFile ELSE parked.user
  /\ sysFile' = IF SameType(parked) THEN sysFile ELSE parked.sys
  /\ bakFile' = IF SameType(parked) THEN bakFile ELSE parked.bak
  /\ propList' = IF SameType(parked) THEN propList ELSE parked.propList
  /\ crashed' = IF SameProcess(parked) THEN crashed ELSE parked.crashed
  /\ saved' = parked.saved
  /\ parked' =
       [kind |-> parked.kind, typeName |-> typeName, props |-> props,
        presets |-> IF SharesStore(parked) THEN NotBuilt ELSE presets,
        bld |-> IF SharesStore(parked) THEN BldNone ELSE bld,
        user |-> IF SameType(parked) THEN NoFile ELSE userFile,
        sys |-> IF SameType(parked) THEN NoFile ELSE sysFile,
        bak |-> IF SameType(parked) THEN NoFile ELSE bakFile,
        propList |-> IF SameType(parked) THEN PropsStd ELSE propList,
        crashed |-> IF SameProcess(parked) THEN FALSE ELSE crashed,
        saved |-> saved]
  /\ per' = PerNone
  /\ steps' = steps + 1
  /\ last' = [op |-> "switch", name |-> NULL, newName |-> NULL, value |-> NULL,
              ret |-> TRUE, names |-> <<>>, meta |-> NULL, crashed |-> FALSE,
              ubHit |-> FALSE, pre |-> Snapshot, mid |-> MidNone]
  /\ UNCHANGED <<budget, ioFailures, ioBudget, durable>>

\* what something outside the process may leave at one of the two paths
ExternalUserFiles == {NoFile, Malformed, DocFile(UserDoc("0.10.31"))}
ExternalSystemFiles == {NoFile, DocFile(SystemDoc("0.10.31"))}

\* the user file or the system file is created, modified or deleted from
\* outside while the process runs
Disturb ==
  /\ steps < budget
  /\ \/ \E f \in ExternalUserFiles \ {userFile} :
          userFile' = f /\ sysFile' = sysFile
     \/ \E f \in ExternalSystemFiles \ {sysFile} :
          sysFile' = f /\ userFile' = userFile
  /\ per' = PerNone
  /\ steps' = steps + 1
  /\ last' = [op |-> "disturb", name |-> NULL, newName |-> NULL, value |-> NULL,
              ret |-> TRUE, names |-> <<>>, meta |-> NULL, crashed |-> FALSE,
              ubHit |-> FALSE, pre |-> Snapshot, mid |-> MidNone]
  /\ UNCHANGED <<bakFile, presets, props, propList, crashed, budget, ioFailures,
                 bld, saved, typeName, parked, ioBudget, durable>>

\* the files of the two layers when several instances start
SharedSamples ==
  {[user |-> NoFile, sys |-> NoFile],
   [user |-> DocFile(UserDoc("0.10.30")), sys |-> DocFile(SystemDoc("0.10.30"))]}

\* the user file of the second type
OtherUserDoc ==
  [order |-> <<"_presets_", "A">>,
   grp |-> ("_presets_" :> HeaderGroup(OtherElementName, "0.10.30", NoComment))
           @@ ("A" :> [kv |-> ("vol" :> "0") @@ ("pan" :> "0"), kc |-> EmptyFn,
                       gc |-> NoComment]),
   top |-> NoComment]

\* a second instance of the same type in this process
ParkedInstance ==
  [ParkedNone EXCEPT !.kind = "instance", !.props = ("vol" :> 0) @@ ("pan" :> 0)]

\* an instance of the second type in this process, nothing called on it yet
ParkedType ==
  [ParkedNone EXCEPT !.kind = "type", !.typeName = OtherElementName,
                     !.user = DocFile(OtherUserDoc)]

\* an instance of the same type in a second process, which has built its key
\* file from the files as they are
ParkedProcess(W) ==
  [ParkedNone EXCEPT !.kind = "process", !.presets = W.presets, !.bld = W.bld]

InitShared ==
  /\ typeName = ElementName
  /\ \E d \in SharedSamples :
       /\ userFile = d.user
       /\ sysFile = d.sys
  /\ bakFile = NoFile
  /\ propList = PropsStd
  /\ props = DefaultProps
  /\ budget = MaxSharedOps
  /\ ioBudget = MaxIOFailures
  /\ InitProcess
  /\ parked \in {ParkedInstance, ParkedType,
                  ParkedProcess(preset_get_keyfile(Now(<<IoOk, IoOk>>), "zero"))}

NextShared ==
  \/ Next
  \/ Switch
  \/ Disturb

\* the runs of two instances, and of the files changing under them
SpecShared == InitShared /\ [][NextShared]_vars

\* the files before a run of persists that may fail more than once
InitPersist ==
  /\ typeName = ElementName
  /\ parked = ParkedNone
  /\ userFile \in {NoFile, DocFile(UserDoc("0.10.30"))}
  /\ sysFile = NoFile
  /\ bakFile = NoFile
  /\ propList = PropsStd
  /\ props = DefaultProps
  /\ budget = MaxPersistOps
  /\ ioBudget = MaxPersistFailures
  /\ InitProcess

\* the runs of persists of which more than one may fail
SpecPersist == InitPersist /\ [][Next]_vars

\* the builds that compare the version strings of VersionSamples
SpecVersions == InitVersions /\ [][Next]_vars

\* the runs of the round trip of save_preset and load_preset
SpecRoundTrip == InitRoundTrip /\ [][Next]_vars

(* ---------------------------------------------------------------------- *)
(* Vocabulary of the properties                                            *)
(* ---------------------------------------------------------------------- *)
Groups(d) == DOMAIN d.grp
Keys(d, g) == IF g \in DOMAIN d.grp THEN DOMAIN d.grp[g].kv ELSE {}
ValueAt(d, g, k) == IF k \in Keys(d, g) THEN d.grp[g].kv[k] ELSE NULL

\* a file the load accepts: readable, well formed, header names the element
Loads(f) ==
  /\ f.kind = "doc"
  /\ ValueAt(f.doc, "_presets_", "element-name") = ElementName

VersionIn(f) == ValueAt(f.doc, "_presets_", "version")

Built == bld.n > 0

BothLoaded ==
  /\ Built
  /\ Loads(bld.user) /\ Loads(bld.sys)
  /\ VersionIn(bld.user) # NULL /\ VersionIn(bld.sys) # NULL

SystemAbove ==
  OrdinalGreater(preset_parse_version(VersionIn(bld.sys)),
                 preset_parse_version(VersionIn(bld.user)))

PublicGroups(d) == {g \in Groups(d) : ~IsPrivate(g)}

MutatingOps == {"save_preset", "rename_preset", "delete_preset", "set_meta"}

(* ---------------------------------------------------------------------- *)
(* C1: list_preset_names never returns a name that begins with '_',        *)
(* whatever the number and the position of the private groups.             *)
(* ---------------------------------------------------------------------- *)
C1_NoPrivateNameListed ==
  (last.op = "get_preset_names" /\ ~last.crashed)
    => \A i \in 1..Len(last.names) : ~IsPrivate(last.names[i])

(* ---------------------------------------------------------------------- *)
(* C2: rebase content.  When both layers load and the system version is    *)
(* strictly above the user version, the resolved key file is the system    *)
(* key file in which every non-private user group replaces the same-named  *)
(* system group, user-only groups are added, system groups absent from     *)
(* the user file are kept and the private user groups are not overlaid.    *)
(* ---------------------------------------------------------------------- *)
C2_RebaseContent ==
  (BothLoaded /\ SystemAbove) =>
    LET U == bld.user.doc
        S == bld.sys.doc
        R == bld.resolved
    IN /\ Groups(R) = Groups(S) \cup PublicGroups(U)
       /\ \A g \in PublicGroups(U) : g \in Groups(R) /\ R.grp[g].kv = U.grp[g].kv
       /\ \A g \in Groups(S) \ PublicGroups(U) :
            g \in Groups(R) /\ R.grp[g].kv = S.grp[g].kv

\* C2 as amended: the same for the user groups that hold at least one key; a
\* user group without keys removes the same-named system group and is not
\* added.
C2_RebaseContentKeyed ==
  (BothLoaded /\ SystemAbove) =>
    LET U == bld.user.doc
        S == bld.sys.doc
        R == bld.resolved
        keyed == {g \in PublicGroups(U) : Keys(U, g) # {}}
    IN /\ Groups(R) = (Groups(S) \ PublicGroups(U)) \cup keyed
       /\ \A g \in keyed : R.grp[g].kv = U.grp[g].kv
       /\ \A g \in Groups(S) \ PublicGroups(U) : R.grp[g].kv = S.grp[g].kv

\* a rebase in which a user group replaced a system group that had a key of
\* its own, a user-only group was added and a system-only group was kept
C2_Witness ==
  /\ BothLoaded /\ SystemAbove
  /\ \E g \in PublicGroups(bld.user.doc) \cap Groups(bld.sys.doc) :
       /\ Keys(bld.user.doc, g) # {}
       /\ Keys(bld.sys.doc, g) \ Keys(bld.user.doc, g) # {}
       /\ Keys(bld.resolved, g) = Keys(bld.user.doc, g)
  /\ PublicGroups(bld.user.doc) \ Groups(bld.sys.doc) # {}
  /\ PublicGroups(bld.sys.doc) \ Groups(bld.user.doc) # {}

(* ---------------------------------------------------------------------- *)
(* C3: merge skip.  When both layers load and the user version is at or    *)
(* above the system version, the resolved key file is exactly the user key *)
(* file and the build re-saves nothing.                                    *)
(* ---------------------------------------------------------------------- *)
C3_MergeSkip ==
  (BothLoaded /\ ~SystemAbove) =>
    /\ bld.resolved = bld.user.doc
    /\ bld.persists = 0
    /\ bld.postUser = bld.user
    /\ bld.postBak = bld.preBak

\* equal ordinals, with a system file that differs from the user file
C3_Witness ==
  /\ BothLoaded
  /\ preset_parse_version(VersionIn(bld.sys)) = preset_parse_version(VersionIn(bld.user))
  /\ bld.sys.doc # bld.user.doc
  /\ bld.resolved = bld.user.doc

(* ---------------------------------------------------------------------- *)
(* C4: a layer file that cannot be read, is malformed, has no element-name *)
(* or names another element is treated like an absent layer: the build     *)
(* does not fail, it takes the other layer verbatim if that one loads and  *)
(* a fresh key file (header with the element-name only) if neither loads.  *)
(* ---------------------------------------------------------------------- *)
FreshDocument ==
  [order |-> <<"_presets_">>,
   grp |-> ("_presets_" :> [kv |-> ("element-name" :> ElementName),
                             kc |-> EmptyFn, gc |-> NoComment]),
   top |-> NoComment]

C4_RejectedLayerIsAbsent ==
  /\ last.crashed => (Loads(last.pre.user) /\ Loads(sysFile))
  /\ Built =>
       /\ (~Loads(bld.user) /\ Loads(bld.sys)) =>
            (bld.resolved = bld.sys.doc /\ bld.persists = 0)
       /\ (Loads(bld.user) /\ ~Loads(bld.sys)) =>
            (bld.resolved = bld.user.doc /\ bld.persists = 0)
       /\ (~Loads(bld.user) /\ ~Loads(bld.sys)) =>
            (bld.resolved = FreshDocument /\ bld.persists = 0)

\* a build with a user file of another element and a system file that loads
C4_Witness ==
  /\ Built
  /\ bld.user.kind = "doc" /\ ~Loads(bld.user)
  /\ "element-name" \in Keys(bld.user.doc, "_presets_")
  /\ Loads(bld.sys)
  /\ bld.resolved = bld.sys.doc

(* ---------------------------------------------------------------------- *)
(* C5: disk follows memory.  After a mutating operation that returns       *)
(* success the file at the user path holds exactly the cached key file,    *)
(* and its header version is the running version.                          *)
(* ---------------------------------------------------------------------- *)
C5_DiskFollowsMemory ==
  (last.op \in MutatingOps /\ last.ret) =>
    /\ userFile = DocFile(presets.doc)
    /\ ValueAt(userFile.doc, "_presets_", "version") = PACKAGE_VERSION

\* a successful save over a user file of an older version
C5_Witness ==
  /\ last.op = "save_preset" /\ last.ret
  /\ last.pre.user.kind = "doc"
  /\ ValueAt(last.pre.user.doc, "_presets_", "version") # PACKAGE_VERSION
  /\ userFile # last.pre.user

(* ---------------------------------------------------------------------- *)
(* C6: when the serialization or the final write fails during a persist,   *)
(* the operation returns failure, nothing is written to the user path and  *)
(* the cached key file, header included, is as it was before the persist.  *)
(* ---------------------------------------------------------------------- *)
C6_FailedPersistKeepsDocument ==
  (per.n > 0 /\ ~per.ret) =>
    /\ ~last.ret
    /\ userFile \in {per.preUser, NoFile}
    /\ presets.doc = per.preDoc

\* C6 as amended: a mutating operation returns failure, nothing is written,
\* and the cached key file is as before the persist except for the header
\* version, which already holds the running version.
C6_FailedPersistKeepsStampedDocument ==
  (per.n > 0 /\ ~per.ret) =>
    /\ last.op \in MutatingOps => ~last.ret
    /\ userFile \in {per.preUser, NoFile}
    /\ presets.doc = KfSetValue(per.preDoc, "_presets_", "version", PACKAGE_VERSION)

\* a save whose write failed, with the saved values pending in memory
C6_Witness ==
  /\ last.op = "save_preset" /\ ~last.ret
  /\ per.n > 0 /\ per.io.write
  /\ per.preDoc # last.mid.doc
  /\ FileExists(per.preUser)

(* ---------------------------------------------------------------------- *)
(* C7: backup rotation.  When a persist runs while a file exists at the    *)
(* user path and the removal of the old backup and the rename succeed, the *)
(* backup path holds what the user path held before; the earlier backup    *)
(* is gone.                                                                *)
(* ---------------------------------------------------------------------- *)
C7_BackupRotation ==
  (per.n > 0 /\ FileExists(per.preUser) /\ ~per.io.unlink /\ ~per.io.rename)
    => bakFile = per.preUser

\* a persist that replaced an older backup of different content
C7_Witness ==
  /\ per.n > 0 /\ ~per.io.unlink /\ ~per.io.rename
  /\ FileExists(per.preUser) /\ FileExists(per.preBak)
  /\ per.preBak # per.preUser
  /\ bakFile = per.preUser

(* ---------------------------------------------------------------------- *)
(* C8: NotFound leaves everything unchanged.  load_preset, rename_preset   *)
(* and delete_preset called with a name that is not a group return failure *)
(* and leave the cached key file, the user file and the backup as before   *)
(* the call, with no persist; load_preset also leaves the property values. *)
(* ---------------------------------------------------------------------- *)
NotFoundCall ==
  /\ last.op \in {"load_preset", "rename_preset", "delete_preset"}
  /\ ~last.crashed
  /\ last.name \notin Groups(last.mid.doc)

C8_NotFoundUnchanged ==
  NotFoundCall =>
    /\ ~last.ret
    /\ last.pre.presets.built => presets = last.pre.presets
    /\ userFile = last.pre.user
    /\ bakFile = last.pre.bak
    /\ per.n = 0
    /\ props = last.pre.props

\* C8 as amended: everything is as it was once the key file was built; it is
\* as before the call unless this call built the key file with a rebase,
\* whose re-save is then the only persist.
C8_NotFoundUnchangedSinceBuild ==
  NotFoundCall =>
    /\ ~last.ret
    /\ presets.doc = last.mid.doc
    /\ userFile = last.mid.user
    /\ bakFile = last.mid.bak
    /\ props = last.pre.props
    /\ (last.pre.presets.built \/ ~bld.updated) =>
         /\ last.pre.presets.built => presets = last.pre.presets
         /\ userFile = last.pre.user
         /\ bakFile = last.pre.bak
         /\ per.n = 0
    /\ per.n <= 1

\* a delete of a missing preset on a built key file with a file on disk
C8_Witness ==
  /\ NotFoundCall
  /\ last.op = "delete_preset"
  /\ last.pre.presets.built
  /\ PublicGroups(presets.doc) # {}
  /\ FileExists(userFile)

(* ---------------------------------------------------------------------- *)
(* C9: rename_preset (old, new) with old present: afterwards group old     *)
(* does not exist, group new holds every key of old with old's value, the  *)
(* keys new had and old had not keep their values, and the result is       *)
(* persisted.                                                              *)
(* ---------------------------------------------------------------------- *)
C9_RenameMovesGroup ==
  (last.op = "rename_preset" /\ ~last.crashed /\ last.name \in Groups(last.mid.doc)) =>
    LET D0 == last.mid.doc
        D1 == presets.doc
    IN /\ last.name \notin Groups(D1)
       /\ \A k \in Keys(D0, last.name) :
            ValueAt(D1, last.newName, k) = ValueAt(D0, last.name, k)
       /\ \A k \in Keys(D0, last.newName) \ Keys(D0, last.name) :
            ValueAt(D1, last.newName, k) = ValueAt(D0, last.newName, k)
       /\ last.ret => userFile = DocFile(D1)

(* ---------------------------------------------------------------------- *)
(* C10: save_preset (name) is a key level update: it creates group name if *)
(* absent, sets only the keys of the properties whose value has a text     *)
(* form, and leaves every other key of the group and every other group.    *)
(* ---------------------------------------------------------------------- *)
\* the properties save_preset writes: listed, and with a value that encodes
Encoded ==
  IF propList.null THEN {}
  ELSE {p \in DOMAIN last.pre.props :
          /\ \E i \in 1..Len(propList.names) : propList.names[i] = p
          /\ gst_value_serialize(last.pre.props[p]) # NULL}

SaveCall == last.op = "save_preset" /\ ~last.crashed

C10_SaveIsKeyLevel ==
  SaveCall =>
    LET D0 == last.mid.doc
        D1 == presets.doc
    IN /\ last.name \in Groups(D1)
       /\ \A p \in Encoded :
            ValueAt(D1, last.name, p) = gst_value_serialize(last.pre.props[p])
       /\ Keys(D1, last.name) = Keys(D0, last.name) \cup Encoded
       /\ \A k \in Keys(D0, last.name) \ Encoded :
            ValueAt(D1, last.name, k) = ValueAt(D0, last.name, k)
       /\ Groups(D1) = Groups(D0) \cup {last.name}
       /\ \A g \in Groups(D0) \ {last.name} : D1.grp[g] = D0.grp[g]

\* C10 as amended: the group is created when at least one value encodes; the
\* only other key that changes is the header version, which the persist sets
\* to the running version; without a property list nothing changes.
C10_SaveIsKeyLevelButVersion ==
  SaveCall =>
    LET D0 == last.mid.doc
        D1 == presets.doc
        stamped == ~propList.null
    IN /\ \A p \in Encoded :
            ValueAt(D1, last.name, p) = gst_value_serialize(last.pre.props[p])
       /\ Groups(D1) = Groups(D0)
                         \cup (IF Encoded # {} THEN {last.name} ELSE {})
                         \cup (IF stamped THEN {"_presets_"} ELSE {})
       /\ \A g \in Groups(D0) \cup Groups(D1) :
            \A k \in Keys(D0, g) \cup Keys(D1, g) :
              \/ g = last.name /\ k \in Encoded
              \/ stamped /\ g = "_presets_" /\ k = "version"
              \/ ValueAt(D1, g, k) = ValueAt(D0, g, k)
       /\ stamped => ValueAt(D1, "_presets_", "version") = PACKAGE_VERSION

\* a save into a group that holds a meta key and the key of a property whose
\* value no longer has a text form, while another property is stored
C10_Witness ==
  /\ SaveCall /\ last.ret
  /\ "_meta/comment" \in Keys(last.mid.doc, last.name)
  /\ Encoded # {}
  /\ \E p \in Keys(last.mid.doc, last.name) :
       /\ p \in DOMAIN last.pre.props
       /\ p \notin Encoded
       /\ ValueAt(presets.doc, last.name, p) = ValueAt(last.mid.doc, last.name, p)
  /\ \E p \in Encoded :
       ValueAt(presets.doc, last.name, p) # ValueAt(last.mid.doc, last.name, p)

(* ---------------------------------------------------------------------- *)
(* C11: round trip.  After a successful save_preset (p) and any later      *)
(* change of the property values, load_preset (p) sets every property      *)
(* whose value had a text form back to the value it had at save time, also *)
(* when the load is done by a new process.                                 *)
(* ---------------------------------------------------------------------- *)
\* a load_preset of the remembered save
RoundTripLoad == last.op = "load_preset" /\ saved.valid /\ saved.name = last.name

\* the listed properties whose value at save time had a text form
SavedEncoded ==
  {p \in DOMAIN saved.props :
     /\ \E i \in 1..Len(propList.names) : propList.names[i] = p
     /\ gst_value_serialize(saved.props[p]) # NULL}

C11_RoundTrip ==
  RoundTripLoad =>
    /\ ~last.crashed
    /\ \A p \in SavedEncoded : props[p] = saved.props[p]

\* C11 restricted: the load does not run into the undefined behaviour of the
\* build, and p is not the header group
C11_RoundTripOfPreset ==
  (RoundTripLoad /\ ~last.crashed /\ saved.name # PRESET_HEADER) =>
    \A p \in SavedEncoded : props[p] = saved.props[p]

\* a load by a new process that changed a property back to the saved value
C11_Witness ==
  /\ RoundTripLoad /\ ~last.crashed /\ saved.name # PRESET_HEADER
  /\ ~last.pre.presets.built
  /\ \E p \in SavedEncoded :
       /\ last.pre.props[p] # saved.props[p]
       /\ props[p] = saved.props[p]

(* ---------------------------------------------------------------------- *)
(* C12: set_meta (name, tag, value) with a non-empty value makes get_meta   *)
(* (name, tag) return that value, creating the group when missing; with an *)
(* empty or absent value it removes the key, so that get_meta returns no    *)
(* value; no other key of the group changes and the key file is persisted. *)
(* ---------------------------------------------------------------------- *)
SetMetaCall == last.op = "set_meta" /\ ~last.crashed

\* the value argument of the last call is present and not empty
PresentValue == last.value \notin {NULL, ""}

\* what get_meta (name, tag) returns now for the arguments of the last call
MetaReadBack ==
  gst_preset_default_get_meta(Now(<<IoOk, IoOk>>), last.name, last.newName, "zero")

GetMetaCall == last.op = "get_meta" /\ ~last.crashed

\* the call found nothing to return
MetaMissing == MetaKey(last.newName) \notin Keys(last.mid.doc, last.name)

LoadFoundCall ==
  /\ last.op = "load_preset"
  /\ ~last.crashed
  /\ last.name \in Groups(last.mid.doc)

\* the properties the element lists
Listed ==
  IF propList.null THEN {}
  ELSE {p \in DOMAIN props : \E i \in 1..Len(propList.names) : propList.names[i] = p}

\* the stored text of property p in the loaded group decodes
Decodes(p) ==
  /\ p \in Keys(last.mid.doc, last.name)
  /\ gst_value_deserialize(ValueAt(last.mid.doc, last.name, p)).ok

\* the values the load leaves: decoded where there is a text that decodes
LoadedValues ==
  /\ \A p \in Listed :
       IF Decodes(p)
         THEN props[p] = gst_value_deserialize(ValueAt(last.mid.doc, last.name, p)).val
       ELSE props[p] = last.pre.props[p]
  /\ \A p \in (DOMAIN props) \ Listed : props[p] = last.pre.props[p]

C14_PartialLoad == LoadFoundCall => (last.ret /\ LoadedValues)

\* C14 as amended: the load fails, changing nothing, when the element gives
\* no property list
C14_PartialLoadWithList ==
  LoadFoundCall => ((last.ret <=> ~propList.null) /\ LoadedValues)

\* a load that set one property and skipped another: its text does not
\* decode or it has no entry
C14_Witness ==
  /\ LoadFoundCall /\ last.ret
  /\ \E p \in Listed : Decodes(p) /\ props[p] # last.pre.props[p]
  /\ \E p \in Listed : ~Decodes(p)

(* ---------------------------------------------------------------------- *)
(* C15: list_preset_names returns every non-private group name exactly     *)
(* once, in ascending string order, and an empty sequence, not a failure,  *)
(* when the key file has no preset group.                                  *)
(* ---------------------------------------------------------------------- *)
\* a get_preset_names call that returned
ListCall == last.op = "get_preset_names" /\ ~last.crashed

\* every non-private group is listed exactly once, and the list ascends
ListsEveryPresetSorted ==
  /\ \A g \in PublicGroups(last.mid.doc) :
       Cardinality({i \in 1..Len(last.names) : last.names[i] = g}) = 1
  /\ \A i \in 1..Len(last.names) : \A j \in 1..Len(last.names) :
       i < j => StrRank(last.names[i]) < StrRank(last.names[j])

C15_ListsPresets ==
  ListCall =>
    /\ last.ret
    /\ ListsEveryPresetSorted
    /\ PublicGroups(last.mid.doc) = {} => last.names = <<>>

\* C15 without its last part: what holds of every list returned
C15_ListsEveryPreset == ListCall => (last.ret /\ ListsEveryPresetSorted)

\* a list of two presets or more from a key file that does not hold them in
\* ascending order
C15_Witness ==
  /\ ListCall /\ last.ret
  /\ Len(last.names) >= 2
  /\ \E i \in 1..Len(last.mid.doc.order) : \E j \in 1..Len(last.mid.doc.order) :
       /\ i < j
       /\ ~IsPrivate(last.mid.doc.order[i]) /\ ~IsPrivate(last.mid.doc.order[j])
       /\ StrRank(last.mid.doc.order[i]) > StrRank(last.mid.doc.order[j])

(* ---------------------------------------------------------------------- *)
(* C16: zero preset persist.  Whenever a persist runs while the key file   *)
(* holds no preset group, no document is written and an existing file at   *)
(* the user path is deleted: afterwards there is no file at the user path. *)
(* ---------------------------------------------------------------------- *)
\* the last persist ran on a key file without preset group
ZeroPresetPersist == per.n > 0 /\ PublicGroups(per.preDoc) = {}

C16_ZeroPresetPersistDeletes == ZeroPresetPersist => ~FileExists(userFile)

\* what the code does: the persist treats such a key file like any other: when
\* the serialization and the write succeed the user path holds the key file,
\* which has the header only; otherwise the user path holds what it held or
\* nothing, its content having moved to the backup path.
C16_ZeroPresetPersistWrites ==
  ZeroPresetPersist =>
    /\ per.ret => (userFile = DocFile(presets.doc) /\ PublicGroups(userFile.doc) = {})
    /\ ~per.ret =>
         \/ userFile = per.preUser
         \/ (~FileExists(userFile) /\ bakFile = per.preUser)

\* delete_preset removed the last preset and the file is still there
C16_Witness ==
  /\ ZeroPresetPersist /\ per.ret
  /\ last.op = "delete_preset" /\ last.ret
  /\ PublicGroups(last.mid.doc) # {}
  /\ FileExists(per.preUser)
  /\ FileExists(userFile)

(* ---------------------------------------------------------------------- *)
(* C19: version ordinal.  A version string with no or one integer          *)
(* component has ordinal 0; otherwise up to four components, each cut to 8 *)
(* bits, are packed most significant first: the comparison of two ordinals *)
(* is the lexicographic comparison of the components modulo 256, and a     *)
(* component never alters the bits of its neighbour.                       *)
(* ---------------------------------------------------------------------- *)
\* the four components of a version string modulo 256, all 0 when the string
\* has fewer than two
ComponentsMod256(str) ==
  LET c == ScanVersion(str)
  IN [i \in 1..4 |-> IF Len(c) > 1 /\ i <= Len(c) THEN c[i] % 256 ELSE 0]

RECURSIVE LexGreaterFrom(_, _, _)
LexGreaterFrom(a, b, i) ==
  IF i > 4 THEN FALSE
  ELSE IF a[i] # b[i] THEN a[i] > b[i]
  ELSE LexGreaterFrom(a, b, i + 1)

\* the build compared the versions of two layers that both have one
VersionsCompared == BothLoaded

C19_OrdinalIsLexicographic ==
  VersionsCompared =>
    LET vs == VersionIn(bld.sys)
        vu == VersionIn(bld.user)
    IN /\ Len(ScanVersion(vs)) <= 1 => preset_parse_version(vs) = OrdinalZero
       /\ bld.updated <=> LexGreaterFrom(ComponentsMod256(vs), ComponentsMod256(vu), 1)
       /\ \A i \in 1..4 : preset_parse_version(vs)[i + 1] = ComponentsMod256(vs)[i]

\* C19 for components below 128 in the major and below 256 elsewhere
C19_OrdinalOfSmallComponents ==
  (/\ VersionsCompared
   /\ \A v \in {VersionIn(bld.sys), VersionIn(bld.user)} :
        \A i \in 1..Len(ScanVersion(v)) :
          ScanVersion(v)[i] < (IF i = 1 THEN 128 ELSE 256)) =>
    LET vs == VersionIn(bld.sys)
        vu == VersionIn(bld.user)
    IN /\ Len(ScanVersion(vs)) <= 1 => preset_parse_version(vs) = OrdinalZero
       /\ bld.updated <=> LexGreaterFrom(ComponentsMod256(vs), ComponentsMod256(vu), 1)
       /\ \A i \in 1..4 : preset_parse_version(vs)[i + 1] = ComponentsMod256(vs)[i]

\* a build that rebased on the fourth component alone
C19_Witness ==
  /\ VersionsCompared /\ bld.updated
  /\ Len(ScanVersion(VersionIn(bld.sys))) = 4
  /\ \A i \in 1..3 :
       ComponentsMod256(VersionIn(bld.sys))[i] = ComponentsMod256(VersionIn(bld.user))[i]

(* ---------------------------------------------------------------------- *)
(* C20: comments survive.  After a rebase the resolved Document carries    *)
(* the file comment of the user Document and the group comment and key     *)
(* comments of each of its non-private groups; after rename_preset(old,    *)
(* new) the group comment and the key comments of old are on new.          *)
(* ---------------------------------------------------------------------- *)
\* the build merged the user Document into the system Document
Rebased == BothLoaded /\ bld.updated

\* every comment of group g of document a is the comment at the same place of
\* group h of document b
CommentsCarried(a, g, b, h) ==
  /\ KfGetComment(a, g, NULL) # NULL =>
       KfGetComment(b, h, NULL) = KfGetComment(a, g, NULL)
  /\ \A k \in KfGetKeys(a, g) :
       KfGetComment(a, g, k) # NULL => KfGetComment(b, h, k) = KfGetComment(a, g, k)

\* group g of document a has a comment, on itself or on a key
Commented(a, g) ==
  \/ KfGetComment(a, g, NULL) # NULL
  \/ \E k \in KfGetKeys(a, g) : KfGetComment(a, g, k) # NULL

RenameDone == last.op = "rename_preset" /\ ~last.crashed /\ last.ret

C20_CommentsSurvive ==
  /\ Rebased =>
       /\ KfGetComment(bld.user.doc, NULL, NULL) # NULL =>
            KfGetComment(bld.resolved, NULL, NULL) = KfGetComment(bld.user.doc, NULL, NULL)
       /\ \A g \in PublicGroups(bld.user.doc) :
            CommentsCarried(bld.user.doc, g, bld.resolved, g)
  /\ RenameDone =>
       CommentsCarried(last.mid.doc, last.name, presets.doc, last.newName)

\* what the code carries: the file comment through a rebase, and through a
\* rename the comments whose place on new existed before
C20_CommentsCarriedWherePlaceExists ==
  /\ Rebased =>
       /\ KfGetComment(bld.user.doc, NULL, NULL) # NULL =>
            KfGetComment(bld.resolved, NULL, NULL) = KfGetComment(bld.user.doc, NULL, NULL)
       /\ \A g \in PublicGroups(bld.user.doc) : ~Commented(bld.resolved, g)
  /\ (RenameDone /\ last.name # last.newName) =>
       /\ (KfHasGroup(last.mid.doc, last.newName)
             /\ KfGetComment(last.mid.doc, last.name, NULL) # NULL) =>
            KfGetComment(presets.doc, last.newName, NULL)
              = KfGetComment(last.mid.doc, last.name, NULL)
       /\ ~KfHasGroup(last.mid.doc, last.newName) =>
            ~Commented(presets.doc, last.newName)

\* a rebase of a commented user preset, and a rename of a commented preset
C20_Witness ==
  \/ Rebased /\ \E g \in PublicGroups(bld.user.doc) :
                  Commented(bld.user.doc, g) /\ KfHasGroup(bld.resolved, g)
  \/ RenameDone /\ last.name # last.newName /\ Commented(last.mid.doc, last.name)

(* ---------------------------------------------------------------------- *)
(* C17: cache authority.  The key file of a type is built at most once per *)
(* process and is shared by the instances of the type; once it is built, a *)
(* file created, modified or deleted from outside changes no result of     *)
(* get_preset_names, load_preset and get_meta; the key files and files of  *)
(* different types do not affect each other.                               *)
(* ---------------------------------------------------------------------- *)
\* the record the handlers start from when the files at the two paths are u and s
NowWith(u, s) == [Now(<<IoOk, IoOk>>) EXCEPT !.user = u, !.sys = s]

\* what the instance in hand is answered when the files are u and s
ListResult(u, s) == gst_preset_default_get_preset_names(NowWith(u, s), "zero").names

LoadResult(u, s, n) ==
  LET W == gst_preset_default_load_preset(NowWith(u, s), n, "zero")
  IN [ret |-> W.ret, props |-> W.props]

MetaResult(u, s, n, t) == gst_preset_default_get_meta(NowWith(u, s), n, t, "zero").meta

ReadResults(u, s) ==
  [names |-> ListResult(u, s),
   load |-> [n \in ArgNames |-> LoadResult(u, s, n)],
   meta |-> [n \in ArgNames |-> [t \in ArgTags |-> MetaResult(u, s, n, t)]]]

\* the answers that do not show the property values of the instance
StoreResults ==
  [names |-> ListResult(userFile, sysFile),
   load |-> [n \in ArgNames |-> LoadResult(userFile, sysFile, n).ret],
   meta |-> [n \in ArgNames |-> [t \in ArgTags |-> MetaResult(userFile, sysFile, n, t)]]]

ApiCalls ==
  {"get_preset_names", "load_preset", "save_preset", "rename_preset",
   "delete_preset", "set_meta", "get_meta"}

CacheStep ==
  /\ bld'.n <= 1
  /\ (presets.built /\ last'.op \in ApiCalls) => bld' = bld
  /\ (presets.built /\ last'.op = "disturb") =>
       /\ <<userFile', sysFile'>> # <<userFile, sysFile>>
       /\ <<presets', props', propList', typeName'>> = <<presets, props, propList, typeName>>
       /\ ReadResults(userFile', sysFile') = ReadResults(userFile, sysFile)
  /\ (presets.built /\ last'.op = "switch" /\ parked.kind = "instance") =>
       (presets' = presets /\ StoreResults' = StoreResults)
  /\ (last'.op \in ApiCalls /\ parked.kind = "type") => parked' = parked
  /\ (last'.op = "switch" /\ parked.kind = "type") =>
       /\ parked'.presets = presets /\ parked'.user = userFile
       /\ parked'.sys = sysFile /\ parked'.bak = bakFile

C17_CacheAuthority == [][CacheStep]_vars

\* a list answered from the key file after the user file it was built from
\* has gone
C17_Witness ==
  /\ last.op = "get_preset_names" /\ ~last.crashed
  /\ last.pre.presets.built
  /\ bld.user.kind = "doc" /\ ~bld.updated
  /\ userFile = NoFile
  /\ last.names = PresetNamesOf(bld.user.doc)
  /\ last.names # <<>>

(* ---------------------------------------------------------------------- *)
(* C18: cross-process lost update.  Two processes have each built the key  *)
(* file of the same type; the save_preset of the first and then the        *)
(* save_preset of another name of the second both return TRUE, and the     *)
(* file at the user path lacks the preset of the first.                    *)
(* ---------------------------------------------------------------------- *)
\* this process has saved a preset after the process of the parked instance
\* has saved another one, which the key file of this process did not have
SavedAfterPeer ==
  /\ last.op = "save_preset" /\ last.ret /\ ~last.crashed
  /\ parked.kind = "process"
  /\ parked.saved.valid /\ parked.saved.name # last.name
  /\ ~IsPrivate(parked.saved.name) /\ ~IsPrivate(last.name)
  /\ last.pre.presets.built
  /\ parked.saved.name \notin Groups(last.pre.presets.doc)
  /\ parked.saved.name \in Groups(last.pre.user.doc)

C18_LostUpdate ==
  SavedAfterPeer =>
    /\ parked.saved.name \notin Groups(userFile.doc)
    /\ userFile = DocFile(presets.doc)

C18_Witness ==
  /\ SavedAfterPeer
  /\ ~parked.crashed
  /\ last.name \in Groups(userFile.doc)
  /\ parked.saved.name \notin Groups(userFile.doc)

(* ---------------------------------------------------------------------- *)
(* C21: backup failures never block the save.  When the old backup cannot  *)
(* be removed, nothing is renamed, the old backup stays as it was and the  *)
(* Document is still written; when the rename to the backup fails, the     *)
(* Document is still written; the result of the persist depends only on    *)
(* the serialization and the final write.                                  *)
(* ---------------------------------------------------------------------- *)
\* the persist of the last call wrote its Document to the user path
PersistWrote == userFile = DocFile(StampVersion(per.preDoc))

C21_BackupFailuresDoNotBlock ==
  per.n > 0 =>
    /\ per.ret <=> (~per.io.data /\ ~per.io.write)
    /\ per.ret => PersistWrote
    /\ per.io.unlink =>
         /\ bakFile = per.preBak
         /\ ~per.io.rename
         /\ ~per.ret => userFile = per.preUser
    /\ (per.io.rename /\ ~per.ret) => userFile = per.preUser

\* a persist that could not remove the old backup of an existing user file
\* and wrote the Document all the same
C21_Witness ==
  /\ per.n > 0 /\ per.io.unlink /\ per.ret
  /\ FileExists(per.preUser) /\ per.preUser # per.preBak
  /\ PersistWrote

(* ---------------------------------------------------------------------- *)
(* C22: the build touches the disk only in the rebase case.  When no layer *)
(* loads, one layer loads or the user version is not below the system      *)
(* version, the build writes, renames and deletes no file; in the rebase    *)
(* case exactly one persist runs, of the resolved Document already cached,  *)
(* within the first call.                                                   *)
(* ---------------------------------------------------------------------- *)
\* the build had both layers, the system one of the higher version
RebaseCase == BothLoaded /\ SystemAbove

\* the build had no layer, one layer, or a user layer not older
PlainCase ==
  /\ Built
  /\ \/ ~Loads(bld.user)
     \/ ~Loads(bld.sys)
     \/ BothLoaded /\ ~SystemAbove

RebaseSaved ==
  /\ RebaseCase
  /\ bld.persists = 1
  /\ userFile = DocFile(StampVersion(bld.resolved))
  /\ sysFile = bld.sys

\* the build of a new process from the files as they are now
NewProcessBuild ==
  preset_get_keyfile([Now(<<IoOk, IoOk>>) EXCEPT !.presets = NotBuilt, !.bld = BldNone],
                     "zero").bld

C23_RebaseNotRepeated ==
  RebaseSaved =>
    /\ ~NewProcessBuild.updated
    /\ NewProcessBuild.persists = 0
    /\ NewProcessBuild.resolved = userFile.doc

\* the system file is not of a version above the one the persist stamps
SystemNotAbovePackage ==
  ~OrdinalGreater(preset_parse_version(VersionIn(bld.sys)),
                  preset_parse_version(PACKAGE_VERSION))

\* C23 for the system files that are not newer than the running version
C23_RebaseNotRepeatedUpToPackage ==
  (RebaseSaved /\ SystemNotAbovePackage) =>
    /\ ~NewProcessBuild.updated
    /\ NewProcessBuild.persists = 0
    /\ NewProcessBuild.resolved = userFile.doc

\* a saved rebase on a system file of the running version
C23_Witness == RebaseSaved /\ SystemNotAbovePackage

(* ---------------------------------------------------------------------- *)
(* C24: persisted state is never lost to failed saves.  When only the      *)
(* serialization and the final write fail, any number of times, then once  *)
(* a persist has succeeded the file at the user path or its backup exists  *)
(* and holds a Document that a successful persist wrote.                   *)
(* ---------------------------------------------------------------------- *)
\* the file holds a Document written by a persist that succeeded
HoldsWritten(f) == f.kind = "doc" /\ f.doc \in durable.written

\* a persist has succeeded and no backup step has failed so far
PersistedCleanly == durable.written # {} /\ ~durable.backupFailed

C24_PersistedStateKept ==
  PersistedCleanly => (HoldsWritten(userFile) \/ HoldsWritten(bakFile))

\* the last persist failed to write, after the one before had succeeded or
\* left the written Document in place
OneFailedWrite ==
  /\ PersistedCleanly
  /\ per.n > 0 /\ ~per.ret
  /\ HoldsWritten(per.preUser)

\* what one failed write leaves: the Document written before, as the backup
C24_OneFailureKeepsBackup ==
  OneFailedWrite => (~FileExists(userFile) /\ bakFile = per.preUser)

C24_Witness == OneFailedWrite /\ bakFile = per.preUser

(* ---------------------------------------------------------------------- *)
(* C25: header integrity.  Whatever names the calls are given, the names   *)
(* of private groups included, the built key file keeps a _presets_ group  *)
(* whose element-name is the type name, and every Document written to the  *)
(* user path is accepted when it is loaded for the same type.              *)
(* ---------------------------------------------------------------------- *)
\* the header group names the type
HeaderNamesType(d) ==
  KfGetValue(d, PRESET_HEADER, PRESET_HEADER_ELEMENT_NAME) = typeName

C25_HeaderIntegrity ==
  /\ presets.built => HeaderNamesType(presets.doc)
  /\ \A d \in durable.written : preset_open_and_parse_header(DocFile(d)).ok

(* ---------------------------------------------------------------------- *)
(* C26: rename_preset never loses a preset.  For all names old and new,    *)
(* old = new included, after rename_preset (old, new) returned success the *)
(* group new exists and holds every key and value old held before.         *)
(* ---------------------------------------------------------------------- *)
\* group new of the key file holds what group old held when the call began
RenamedKept ==
  /\ last.newName \in Groups(presets.doc)
  /\ \A k \in Keys(last.mid.doc, last.name) :
       ValueAt(presets.doc, last.newName, k) = ValueAt(last.mid.doc, last.name, k)

C26_RenameKeepsPreset == RenameDone => RenamedKept

(* ---------------------------------------------------------------------- *)
(* C27: a successful save creates the preset.  After save_preset (name)    *)
(* returned success for a name that does not begin with '_', the name is   *)
(* listed by get_preset_names and load_preset (name) returns success, also *)
(* for an instance with no property to store and for one none of whose     *)
(* values has a text form.                                                 *)
(* ---------------------------------------------------------------------- *)
\* the last call was a save of a public name that returned TRUE
SaveDone ==
  last.op = "save_preset" /\ ~last.crashed /\ last.ret /\ ~IsPrivate(last.name)

\* the name is among those get_preset_names returns now
ListedNow(name) ==
  LET names == ListResult(userFile, sysFile)
  IN \E i \in 1..Len(names) : names[i] = name

C27_SavedPresetExists ==
  SaveDone => (ListedNow(last.name) /\ LoadResult(userFile, sysFile, last.name).ret)

\* the instance had a property whose value was stored
SavedSomething == Encoded # {}

C27_SavedPresetExistsWhenStored ==
  (SaveDone /\ SavedSomething) =>
    (ListedNow(last.name) /\ LoadResult(userFile, sysFile, last.name).ret)

(* ---------------------------------------------------------------------- *)
(* C28: the build completes for every combination of layer states.  When   *)
(* both layers load and the header of either has no version key, the       *)
(* absent version is compared as ordinal 0 and the build returns a key     *)
(* file: the process does not die.                                         *)
(* ---------------------------------------------------------------------- *)
\* the last call built the key file from two layers that load, one of them
\* without a version in its header
BuildWithoutVersion ==
  /\ last.op \in ApiCalls
  /\ ~last.pre.presets.built
  /\ Loads(last.pre.user) /\ Loads(sysFile)
  /\ VersionIn(last.pre.user) = NULL \/ VersionIn(sysFile) = NULL

\* the ordinal of a version string, 0 for an absent one
OrdinalOrZero(v) == IF v = NULL THEN OrdinalZero ELSE preset_parse_version(v)

\* the build took the system layer exactly when its ordinal is the greater
ComparedAsZero ==
  /\ Built /\ presets.built
  /\ bld.user = last.pre.user /\ bld.sys = sysFile
  /\ bld.updated = OrdinalGreater(OrdinalOrZero(VersionIn(sysFile)),
                                  OrdinalOrZero(VersionIn(last.pre.user)))

C28_BuildCompletesWithoutVersion ==
  BuildWithoutVersion => (~last.crashed /\ ~crashed /\ ComparedAsZero)

\* the same when the scan of the absent string converts nothing
C28_AbsentVersionIsZeroUnlessCrash ==
  (BuildWithoutVersion /\ ~last.crashed) => ComparedAsZero
====
